---- MODULE Spec2Model ----
(***************************************************************************)
(* Model of the Impuls Python function runtime                             *)
(* (src/impuls/runtimes/python/runtime.py): the single-slot handler cache, *)
(* load_function, execute_handler and the do_POST orchestration, served by *)
(* a single-threaded HTTPServer.                                           *)
(*                                                                         *)
(* Source texts are opaque strings; Unit(code) says what module object the *)
(* interpreter builds from a text.  Entry-point descriptors are sequences  *)
(* of one-character strings so that rsplit('.', 1) is computed, not        *)
(* assumed.                                                                *)
(***************************************************************************)
EXTENDS Integers, Sequences, FiniteSets, TLC

VARIABLES
    cached_code,     \* global cached_code (line 23): a source text or "None"
    cached_handler,  \* global cached_handler (line 22): an artifact or NoneV
    file,            \* contents of FUNCTION_DIR/function.py, "None" if absent
    environ,         \* os.environ restricted to the overlay keys
    pc,              \* position of the server thread
    req,             \* the request being served by do_POST
    handler,         \* do_POST local `handler`
    context,         \* do_POST local `context`
    result,          \* value produced by the handler (do_POST local `result`), or "unset"
    exc,             \* exception in flight, NoneV if none
    loop,            \* event loop of execute_handler: "none", "open", "closed"
    coro,            \* state of the coroutine driven by run_until_complete
    wire,            \* what do_POST has written to the connection so far
    obs,             \* per-invocation counters: load_function calls, Resolver runs,
                     \* file writes, module loads, handler calls, loops created
    cache0,          \* cache slot when the current invocation began
    prev,            \* source text of the previous invocation if it resolved,
                     \* "failed" if its resolution raised, else "None"
    now,             \* reading of the wall clock time.time(), in ticks
    queries,         \* answers of context.get_remaining_time_in_millis() so far
    open_loops,      \* event loops created by execute_handler and not closed
    inflight         \* requests accepted by the server and not finished

vars == <<cached_code, cached_handler, file, environ, pc, req, handler, context,
          result, exc, loop, coro, wire, obs, cache0, prev, now, queries,
          open_loops, inflight>>

-----------------------------------------------------------------------------
(* Values *)

NoneV == [t |-> "None"]

\* Source texts posted as request field `code`.  "A_ws" is "A" with a
\* whitespace-only edit: a different text that defines the same module.
Sources == {"A", "A_ws", "B", "C", "D", "bad"}

\* Python function objects a module can define: execution model, whether the
\* coroutine really suspends, and what the body does.
Fn(model, suspends, act) ==
    [t |-> "fn", model |-> model, suspends |-> suspends, act |-> act]

NotCallable == [t |-> "int"]
Absent == [t |-> "absent"]

\* Module namespace that exec_module builds from a source text: attribute
\* name (a character sequence) -> attribute.
UnitAttrs(code) ==
    CASE code \in {"A", "A_ws"} ->
            [n \in {<<"f">>, <<"g">>, <<"x">>} |->
                CASE n = <<"f">> -> Fn("sync", FALSE, "ret42")
                  [] n = <<"g">> -> Fn("async", TRUE, "ret42")
                  [] OTHER -> NotCallable]
      [] code = "B" ->
            [n \in {<<"f">>, <<"g">>} |->
                IF n = <<"f">> THEN Fn("sync", FALSE, "raiseException")
                               ELSE Fn("async", TRUE, "raiseException")]
      [] code = "C" ->
            [n \in {<<"f">>, <<"g">>} |->
                IF n = <<"f">> THEN Fn("sync", FALSE, "retSet")
                               ELSE Fn("async", FALSE, "retEvent")]
      [] code = "D" ->
            [n \in {<<"f">>, <<"g">>} |->
                IF n = <<"f">> THEN Fn("sync", FALSE, "exit")
                               ELSE Fn("async", TRUE, "cancel")]
      [] code = "T" ->
            [n \in {<<"f">>, <<"g">>} |->
                IF n = <<"f">> THEN Fn("sync", FALSE, "watch")
                               ELSE Fn("async", TRUE, "watch")]
      [] code = "U" ->
            [n \in {<<"f">>, <<"g">>} |->
                IF n = <<"f">> THEN Fn("sync", FALSE, "watchRaise")
                               ELSE Fn("async", TRUE, "watchRaise")]
      [] OTHER -> [n \in {} |-> Absent]

\* Source texts whose handlers ask the context for the remaining time: "T"
\* returns 42 afterwards, "U" raises.
TimedSources == {"T", "U"}

\* Bodies that call context.get_remaining_time_in_millis().
WatchActs == {"watch", "watchRaise"}

Exc(cls, msg) == [t |-> "exc", cls |-> cls, msg |-> msg]

\* Does executing the module body raise?  ("bad" does not compile.)
LoadError(code) ==
    IF code = "bad" THEN Exc("SyntaxError", <<"invalid syntax">>) ELSE NoneV

\* Python values a handler can return, and the request payloads (`event`).
Events == {"dict:empty", "dict:n1"}
Values == {"int:42", "set:1,2"} \cup Events

\* json.dumps on a value: its JSON text, or TypeError for a value json cannot
\* encode (line 175 encodes the whole response, whose only free part is body).
JsonSerializable(v) == v # "set:1,2"

JsonText(v) ==
    CASE v = "int:42" -> "42"
      [] v = "dict:empty" -> "{}"
      [] v = "dict:n1" -> "{\"n\": 1}"
      [] OTHER -> "?"

\* Classes that derive from BaseException but not from Exception.
BaseOnly == {"SystemExit", "CancelledError"}

\* str(e) of an exception constructed with one str argument
Str(e) == e.msg

\* traceback.format_exc(): header, frames, then the exception line.
FormatExc(e) == <<"Traceback (most recent call last):", e.cls>> \o Str(e)

-----------------------------------------------------------------------------
(* Handler Resolver and Handler Cache: load_function *)

LastDot(d) ==
    IF \E i \in 1..Len(d) : d[i] = "."
    THEN CHOOSE i \in 1..Len(d) : d[i] = "." /\ \A j \in (i+1)..Len(d) : d[j] # "."
    ELSE 0

\* handler.rsplit('.', 1)
RSplit(d) ==
    IF LastDot(d) = 0 THEN <<d>>
    ELSE <<SubSeq(d, 1, LastDot(d) - 1), SubSeq(d, LastDot(d) + 1, Len(d))>>

HasAttr(code, name) == name \in DOMAIN UnitAttrs(code)

GetAttr(code, name) == UnitAttrs(code)[name]

Callable(attr) == attr.t = "fn"

\* The function object bound to `name` in the module loaded from `code`.
Artifact(code, name) == [t |-> "handler", code |-> code, name |-> name]

Behaviour(h) == GetAttr(h.code, h.name)

\* the test of line 46 without the comparison of the source texts
CacheHit_anyCode(code) == cached_handler # NoneV

\* the test of line 46 with `is None` for `is not None`
CacheHit_isNone(code) == cached_code = code /\ cached_handler = NoneV

\* line 46
CacheHit(code) == cached_code = code /\ cached_handler # NoneV

\* What a call of load_function does: what it returns or raises, the cache
\* slot and the materialized file it leaves, and whether lines 49-85 (the
\* Resolver), the file write and exec_module ran.
Returned(v, cc, ch, f, ran) ==
    [out |-> "return", value |-> v, exc |-> NoneV, cached_code |-> cc,
     cached_handler |-> ch, file |-> f, resolver |-> ran, writes |-> ran,
     loads |-> ran]

\* line 82 moved up to the file write: the source text is stored before the
\* function is validated
Raised_storesCode(e, f, wrote) ==
    [out |-> "raise", value |-> NoneV, exc |-> e,
     cached_code |-> IF wrote = 1 THEN f ELSE cached_code,
     cached_handler |-> cached_handler, file |-> f, resolver |-> 1,
     writes |-> wrote, loads |-> wrote]

\* a failing resolution that empties the cache slot
Raised_clearsSlot(e, f, wrote) ==
    [out |-> "raise", value |-> NoneV, exc |-> e, cached_code |-> "None",
     cached_handler |-> NoneV, file |-> f, resolver |-> 1,
     writes |-> wrote, loads |-> wrote]

Raised(e, f, wrote) ==
    [out |-> "raise", value |-> NoneV, exc |-> e, cached_code |-> cached_code,
     cached_handler |-> cached_handler, file |-> f, resolver |-> 1,
     writes |-> wrote, loads |-> wrote]

\* lines 49-85: split the descriptor, write and load the module, look the
\* function up, and store the pair in the cache slot
Resolve(code, descr) ==
    IF Len(RSplit(descr)) # 2 THEN
        Raised(Exc("ValueError", <<"Invalid handler format: ">> \o descr), file, 0)
    ELSE IF LoadError(code) # NoneV THEN
        Raised(LoadError(code), code, 1)
    ELSE IF ~HasAttr(code, RSplit(descr)[2]) THEN
        Raised(Exc("ValueError",
                   <<"Handler '">> \o RSplit(descr)[2] \o <<"' not found in module">>),
               code, 1)
    ELSE IF ~Callable(GetAttr(code, RSplit(descr)[2])) THEN
        Raised(Exc("ValueError",
                   <<"Handler '">> \o RSplit(descr)[2] \o <<"' is not callable">>),
               code, 1)
    ELSE
        Returned(Artifact(code, RSplit(descr)[2]), code,
                 Artifact(code, RSplit(descr)[2]), code, 1)

\* load_function(code, handler), lines 42-85
load_function(code, descr) ==
    IF CacheHit(code)
    THEN Returned(cached_handler, cached_code, cached_handler, file, 0)
    ELSE Resolve(code, descr)

-----------------------------------------------------------------------------
(* Dispatch Bridge: execute_handler *)

\* asyncio.iscoroutinefunction(handler), lines 92 and 102
iscoroutinefunction(h) == Behaviour(h).model = "async"

Return(v) == [out |-> "return", value |-> v, exc |-> NoneV]
Raise(e) == [out |-> "raise", value |-> "unset", exc |-> e]

\* Running the body of the user's function on (event, context).
RunBody(fn, event) ==
    CASE fn.act = "ret42" -> Return("int:42")
      [] fn.act = "retSet" -> Return("set:1,2")
      [] fn.act = "retEvent" -> Return(event)
      [] fn.act = "raiseException" -> Raise(Exc("Exception", <<"boom">>))
      [] fn.act = "exit" -> Raise(Exc("SystemExit", <<"3">>))
      [] fn.act = "cancel" -> Raise(Exc("CancelledError", <<"boom">>))
      [] fn.act = "watch" -> Return("int:42")
      [] fn.act = "watchRaise" -> Raise(Exc("Exception", <<"boom">>))

\* line 110: return handler(event, context)
DispatchImmediate(h, event) == RunBody(Behaviour(h), event)

-----------------------------------------------------------------------------
(* Requests *)

EnvKeys == {"K"}
EnvValues == {"v1", "v2"}
NoOverlay == [k \in {} |-> "v1"]
Overlays == {NoOverlay} \cup {[k \in EnvKeys |-> v] : v \in EnvValues \cup {"int:5"}}

\* Entry-point descriptors, one character per element.
Descriptors ==
    { <<"m", ".", "f">>, <<"m", ".", "g">>, <<"m", ".", "x">>, <<"m", ".", "z">>,
      <<"m">>, <<"m", ".">>, <<".", "f">>, <<"a", ".", "m", ".", "g">> }

\* request.get defaults of lines 150 and 151
DefaultMemoryMb == 128
DefaultTimeoutSec == 30

InvokeRequests ==
    [path : {"/invoke"}, json : {TRUE}, code : Sources, handler : Descriptors,
     event : Events, env : Overlays, function_name : {"unknown"},
     memory_mb : {DefaultMemoryMb}, timeout_sec : {DefaultTimeoutSec}]

\* A body that json.loads rejects; the fields are never read.
BadBody ==
    [path |-> "/invoke", json |-> FALSE, code |-> "A", handler |-> <<"m">>,
     event |-> "dict:empty", env |-> NoOverlay, function_name |-> "unknown",
     memory_mb |-> DefaultMemoryMb, timeout_sec |-> DefaultTimeoutSec]

NoRequest ==
    [path |-> "", json |-> FALSE, code |-> "A", handler |-> <<"m">>,
     event |-> "dict:empty", env |-> NoOverlay, function_name |-> "unknown",
     memory_mb |-> DefaultMemoryMb, timeout_sec |-> DefaultTimeoutSec]

NoObs == [lookups |-> 0, resolver |-> 0, writes |-> 0, loads |-> 0, calls |-> 0, loops |-> 0]

Slot == [code |-> cached_code, handler |-> cached_handler]

-----------------------------------------------------------------------------
(* The server: HTTPServer.serve_forever handles one request at a time *)

Init ==
    /\ cached_code = "None"
    /\ cached_handler = NoneV
    /\ file = "None"
    /\ environ = [k \in EnvKeys |-> "unset"]
    /\ pc = "idle"
    /\ req = NoRequest
    /\ handler = NoneV
    /\ context = NoneV
    /\ result = "unset"
    /\ exc = NoneV
    /\ loop = "none"
    /\ coro = "none"
    /\ wire = <<>>
    /\ obs = NoObs
    /\ cache0 = [code |-> "None", handler |-> NoneV]
    /\ prev = "None"
    /\ now = 0
    /\ queries = <<>>
    /\ open_loops = 0
    /\ inflight = 0

\* a server that starts do_POST for a request while another is being handled
\* (socketserver.ThreadingMixIn)
Idle_threading == pc # "dead"

\* HTTPServer is not threaded: do_POST starts only when no other is running
Idle == pc = "idle"

\* Locals of a new do_POST call.
Begin(r) ==
    /\ req' = r
    /\ handler' = NoneV
    /\ context' = NoneV
    /\ result' = "unset"
    /\ loop' = "none"
    /\ coro' = "none"
    /\ obs' = NoObs
    /\ cache0' = Slot
    /\ queries' = <<>>
    /\ inflight' = inflight + 1
    /\ UNCHANGED <<prev, now, open_loops>>

ResponseHead(status) == [kind |-> "head", status |-> status]

\* lines 133-136: any path but /invoke
do_POST_404 ==
    /\ Idle
    /\ Begin([NoRequest EXCEPT !.path = "/other"])
    /\ wire' = <<ResponseHead(404)>>
    /\ exc' = NoneV
    /\ pc' = "done"
    /\ UNCHANGED <<cached_code, cached_handler, file, environ>>

\* lines 138-151: read and parse the body, extract the invocation data
do_POST_parse ==
    /\ Idle
    /\ \E r \in InvokeRequests \cup {BadBody} :
        /\ Begin(r)
        /\ wire' = <<>>
        /\ IF r.json
           THEN pc' = "env" /\ exc' = NoneV
           ELSE pc' = "except" /\ exc' = Exc("JSONDecodeError", <<"Expecting value">>)
    /\ UNCHANGED <<cached_code, cached_handler, file, environ>>

\* lines 153-155 without the assignment of line 155
do_POST_env_noAssign ==
    /\ pc = "env"
    /\ IF \E k \in DOMAIN req.env : req.env[k] \notin EnvValues
       THEN /\ exc' = Exc("TypeError", <<"str expected, not int">>)
            /\ pc' = "except"
       ELSE /\ pc' = "load"
            /\ UNCHANGED exc
    /\ UNCHANGED <<cached_code, cached_handler, file, environ, req, handler, context,
                   result, loop, coro, wire, obs, cache0, prev>>
    /\ UNCHANGED <<now, queries, open_loops, inflight>>

\* lines 153-155: for key, value in env.items(): os.environ[key] = value
\* (os.environ rejects a value that is not a str with TypeError)
do_POST_env ==
    /\ pc = "env"
    /\ IF \E k \in DOMAIN req.env : req.env[k] \notin EnvValues
       THEN /\ exc' = Exc("TypeError", <<"str expected, not int">>)
            /\ pc' = "except"
            /\ UNCHANGED environ
       ELSE /\ environ' = [k \in EnvKeys |->
                              IF k \in DOMAIN req.env THEN req.env[k] ELSE environ[k]]
            /\ pc' = "load"
            /\ UNCHANGED exc
    /\ UNCHANGED <<cached_code, cached_handler, file, req, handler, context, result,
                   loop, coro, wire, obs, cache0, prev>>
    /\ UNCHANGED <<now, queries, open_loops, inflight>>

\* line 158: handler = load_function(code, handler_name)
do_POST_load ==
    /\ pc = "load"
    /\ LET r == load_function(req.code, req.handler) IN
        /\ cached_code' = r.cached_code
        /\ cached_handler' = r.cached_handler
        /\ file' = r.file
        /\ handler' = r.value
        /\ exc' = r.exc
        /\ obs' = [obs EXCEPT !.lookups = @ + 1, !.resolver = @ + r.resolver, !.writes = @ + r.writes,
                              !.loads = @ + r.loads]
        /\ pc' = IF r.out = "return" THEN "ctx" ELSE "except"
    /\ UNCHANGED <<environ, req, context, result, loop, coro, wire, cache0, prev>>
    /\ UNCHANGED <<now, queries, open_loops, inflight>>

-----------------------------------------------------------------------------
(* Invocation Context: LambdaContext *)

\* The clock is read in ticks of 1/TicksPerSec second.
TicksPerSec == 3
MaxNow == 4
MaxBack == 1
MaxTimeLimit == 1
MaxQueries == 2

\* LambdaContext.__init__, lines 29-34
LambdaContext(function_name, memory_mb, timeout_sec) ==
    [t |-> "context", function_name |-> function_name, function_version |-> "1",
     memory_limit_in_mb |-> memory_mb, timeout_sec |-> timeout_sec,
     start_time |-> now]

\* max(0, x), line 38
Max0(x) == IF x > 0 THEN x ELSE 0

\* int(x) for the fraction x = num / den: truncation toward zero, line 39
IntTrunc(num, den) == IF num >= 0 THEN num \div den ELSE -((-num) \div den)

\* line 38 without max(0, ...)
get_remaining_time_in_millis_noMax(ctx) ==
    IntTrunc((ctx.timeout_sec * TicksPerSec - (now - ctx.start_time)) * 1000, TicksPerSec)

\* LambdaContext.get_remaining_time_in_millis, lines 36-39: elapsed and the
\* time limit are kept in ticks, so `remaining` is a number of 1/TicksPerSec ms
get_remaining_time_in_millis(ctx) ==
    IntTrunc(Max0((ctx.timeout_sec * TicksPerSec - (now - ctx.start_time)) * 1000),
             TicksPerSec)

\* One call by the handler: the elapsed ticks at the call and the answer.
Query == [elapsed |-> now - context.start_time,
          ms |-> get_remaining_time_in_millis(context)]

\* The answers after the part of the body that runs now has asked, if it asks.
Asked(fn) == IF fn.act \in WatchActs THEN Append(queries, Query) ELSE queries

\* line 161: context = LambdaContext(function_name, memory_mb, timeout_sec)
do_POST_context ==
    /\ pc = "ctx"
    /\ context' = LambdaContext(req.function_name, req.memory_mb, req.timeout_sec)
    /\ pc' = "exec"
    /\ UNCHANGED <<cached_code, cached_handler, file, environ, req, handler, result,
                   exc, loop, coro, wire, obs, cache0, prev>>
    /\ UNCHANGED <<now, queries, open_loops, inflight>>

\* line 164 with lines 109-110: the immediate model
execute_handler_sync ==
    /\ pc = "exec"
    /\ ~iscoroutinefunction(handler)
    /\ LET r == DispatchImmediate(handler, req.event) IN
        /\ result' = r.value
        /\ exc' = r.exc
        /\ pc' = IF r.out = "return" THEN "send" ELSE "except"
    /\ obs' = [obs EXCEPT !.calls = @ + 1]
    /\ queries' = Asked(Behaviour(handler))
    /\ UNCHANGED <<cached_code, cached_handler, file, environ, req, handler, context,
                   loop, coro, wire, cache0, prev>>
    /\ UNCHANGED <<now, open_loops, inflight>>

\* lines 102-106 and 88-93: a new event loop starts driving the coroutine, which
\* runs to its first suspension point or, if it never suspends, to its end
execute_handler_async ==
    /\ pc = "exec"
    /\ iscoroutinefunction(handler)
    /\ loop' = "open"
    /\ obs' = [obs EXCEPT !.calls = @ + 1, !.loops = @ + 1]
    /\ queries' = Asked(Behaviour(handler))
    /\ IF Behaviour(handler).suspends
       THEN coro' = "suspended" /\ UNCHANGED <<result, exc>>
       ELSE LET r == RunBody(Behaviour(handler), req.event) IN
              coro' = "finished" /\ result' = r.value /\ exc' = r.exc
    /\ pc' = "loop"
    /\ UNCHANGED <<cached_code, cached_handler, file, environ, req, handler, context,
                   wire, cache0, prev>>
    /\ open_loops' = open_loops + 1
    /\ UNCHANGED <<now, inflight>>

\* the loop gives up on a coroutine whose time limit has passed
loop_resume_deadline ==
    /\ pc = "loop"
    /\ coro = "suspended"
    /\ LET r == IF now - context.start_time >= context.timeout_sec * TicksPerSec
                THEN Raise(Exc("TimeoutError", <<"timed out">>))
                ELSE RunBody(Behaviour(handler), req.event) IN
        coro' = "finished" /\ result' = r.value /\ exc' = r.exc
    /\ UNCHANGED <<cached_code, cached_handler, file, environ, pc, req, handler,
                   context, loop, wire, obs, cache0, prev>>
    /\ UNCHANGED <<now, queries, open_loops, inflight>>

\* the loop resumes the suspended coroutine, which runs to its end
loop_resume ==
    /\ pc = "loop"
    /\ coro = "suspended"
    /\ LET r == RunBody(Behaviour(handler), req.event) IN
        coro' = "finished" /\ result' = r.value /\ exc' = r.exc
    /\ UNCHANGED <<cached_code, cached_handler, file, environ, pc, req, handler,
                   context, loop, wire, obs, cache0, prev>>
    /\ UNCHANGED <<now, queries, open_loops, inflight>>

\* lines 105-108 with a handler for the exception in place of `finally`
loop_close_swallow ==
    /\ pc = "loop"
    /\ coro = "finished"
    /\ loop' = "closed"
    /\ exc' = NoneV
    /\ pc' = "send"
    /\ UNCHANGED <<cached_code, cached_handler, file, environ, req, handler, context,
                   result, coro, wire, obs, cache0, prev>>
    /\ open_loops' = open_loops - 1
    /\ UNCHANGED <<now, queries, inflight>>

\* lines 105-108 without `finally`: loop.close() only after a normal return
loop_close_noFinally ==
    /\ pc = "loop"
    /\ coro = "finished"
    /\ loop' = IF exc = NoneV THEN "closed" ELSE "open"
    /\ pc' = IF exc = NoneV THEN "send" ELSE "except"
    /\ UNCHANGED <<cached_code, cached_handler, file, environ, req, handler, context,
                   result, exc, coro, wire, obs, cache0, prev>>
    /\ open_loops' = IF exc = NoneV THEN open_loops - 1 ELSE open_loops
    /\ UNCHANGED <<now, queries, inflight>>

\* lines 106-108: run_until_complete returns or raises; finally: loop.close()
loop_close ==
    /\ pc = "loop"
    /\ coro = "finished"
    /\ loop' = "closed"
    /\ pc' = IF exc = NoneV THEN "send" ELSE "except"
    /\ UNCHANGED <<cached_code, cached_handler, file, environ, req, handler, context,
                   result, exc, coro, wire, obs, cache0, prev>>
    /\ open_loops' = open_loops - 1
    /\ UNCHANGED <<now, queries, inflight>>

\* the response of lines 167-170 built without the handler's result
SuccessPayload_noBody(v) == [kind |-> "payload", statusCode |-> 200, body |-> "null"]

SuccessPayload(v) == [kind |-> "payload", statusCode |-> 200, body |-> JsonText(v)]

ErrorPayload(e) ==
    [kind |-> "payload", statusCode |-> 500, error |-> Str(e), stack |-> FormatExc(e)]

\* lines 167-175: the head is written by end_headers before json.dumps runs
do_POST_send ==
    /\ pc = "send"
    /\ IF JsonSerializable(result)
       THEN /\ wire' = wire \o <<ResponseHead(200), SuccessPayload(result)>>
            /\ pc' = "done"
            /\ UNCHANGED exc
       ELSE /\ wire' = wire \o <<ResponseHead(200)>>
            /\ exc' = Exc("TypeError", <<"Object of type set is not JSON serializable">>)
            /\ pc' = "except"
    /\ UNCHANGED <<cached_code, cached_handler, file, environ, req, handler, context,
                   result, loop, coro, obs, cache0, prev>>
    /\ UNCHANGED <<now, queries, open_loops, inflight>>

\* line 177: except Exception as e
Caught(e) == e.cls \notin BaseOnly

\* lines 177-187 with one more dispatch after a handler's failure
do_POST_except_retry ==
    /\ pc = "except"
    /\ Caught(exc)
    /\ IF obs.calls = 1 /\ wire = <<>>
       THEN /\ pc' = "exec"
            /\ exc' = NoneV
            /\ UNCHANGED wire
       ELSE /\ wire' = wire \o <<ResponseHead(200), ErrorPayload(exc)>>
            /\ pc' = "done"
            /\ UNCHANGED exc
    /\ UNCHANGED <<cached_code, cached_handler, file, environ, req, handler, context,
                   result, loop, coro, obs, cache0, prev>>
    /\ UNCHANGED <<now, queries, open_loops, inflight>>

\* lines 177-187: the failure outcome
do_POST_except ==
    /\ pc = "except"
    /\ Caught(exc)
    /\ wire' = wire \o <<ResponseHead(200), ErrorPayload(exc)>>
    /\ pc' = "done"
    /\ UNCHANGED <<cached_code, cached_handler, file, environ, req, handler, context,
                   result, exc, loop, coro, obs, cache0, prev>>
    /\ UNCHANGED <<now, queries, open_loops, inflight>>

\* An exception that `except Exception` does not match leaves do_POST,
\* socketserver re-raises it out of serve_forever, and main() (lines 195-200)
\* closes the server: the process ends.
main_exit ==
    /\ pc = "except"
    /\ ~Caught(exc)
    /\ pc' = "dead"
    /\ UNCHANGED <<cached_code, cached_handler, file, environ, req, handler, context,
                   result, exc, loop, coro, wire, obs, cache0, prev>>
    /\ UNCHANGED <<now, queries, open_loops, inflight>>

\* do_POST returns, the connection is shut down and serve_forever waits for
\* the next request; `prev` remembers the source text if the call resolved.
finish_request ==
    /\ pc = "done"
    /\ pc' = "idle"
    /\ prev' = IF handler # NoneV THEN req.code
               ELSE IF obs.resolver = 1 THEN "failed" ELSE "None"
    /\ req' = NoRequest
    /\ handler' = NoneV
    /\ context' = NoneV
    /\ result' = "unset"
    /\ exc' = NoneV
    /\ loop' = "none"
    /\ coro' = "none"
    /\ wire' = <<>>
    /\ obs' = NoObs
    /\ cache0' = Slot
    /\ UNCHANGED <<cached_code, cached_handler, file, environ>>
    /\ queries' = <<>>
    /\ inflight' = inflight - 1
    /\ UNCHANGED <<now, open_loops>>

-----------------------------------------------------------------------------
(* The clock, and invocations whose handlers watch their time budget *)

TimeLimits == (0 - 1)..MaxTimeLimit

TimedRequests ==
    [path : {"/invoke"}, json : {TRUE}, code : TimedSources,
     handler : {<<"m", ".", "f">>, <<"m", ".", "g">>}, event : {"dict:empty"},
     env : {NoOverlay}, function_name : {"unknown"},
     memory_mb : {DefaultMemoryMb}, timeout_sec : TimeLimits]

\* lines 138-151 for a request that sets timeout_sec
do_POST_parse_timed ==
    /\ Idle
    /\ \E r \in TimedRequests : Begin(r)
    /\ wire' = <<>>
    /\ exc' = NoneV
    /\ pc' = "env"
    /\ UNCHANGED <<cached_code, cached_handler, file, environ>>

Running == pc \in {"exec", "loop"}

\* time passes while the invocation runs: time.time() reads one tick more
clock_tick ==
    /\ Running
    /\ now < MaxNow
    /\ now' = now + 1
    /\ UNCHANGED <<cached_code, cached_handler, file, environ, pc, req, handler,
                   context, result, exc, loop, coro, wire, obs, cache0, prev,
                   queries, open_loops, inflight>>

\* the system clock is set back (time.time() is not monotonic)
clock_set_back ==
    /\ Running
    /\ now > 0 - MaxBack
    /\ now' = now - 1
    /\ UNCHANGED <<cached_code, cached_handler, file, environ, pc, req, handler,
                   context, result, exc, loop, coro, wire, obs, cache0, prev,
                   queries, open_loops, inflight>>

\* the suspended coroutine wakes, asks the context for the remaining time
\* and suspends again
handler_query ==
    /\ pc = "loop"
    /\ coro = "suspended"
    /\ Behaviour(handler).act \in WatchActs
    /\ Len(queries) < MaxQueries
    /\ queries' = Append(queries, Query)
    /\ UNCHANGED <<cached_code, cached_handler, file, environ, pc, req, handler,
                   context, result, exc, loop, coro, wire, obs, cache0, prev,
                   now, open_loops, inflight>>

NextTime ==
    \/ do_POST_parse_timed
    \/ do_POST_env
    \/ do_POST_load
    \/ do_POST_context
    \/ execute_handler_sync
    \/ execute_handler_async
    \/ handler_query
    \/ loop_resume
    \/ loop_close
    \/ do_POST_send
    \/ do_POST_except
    \/ finish_request
    \/ clock_tick
    \/ clock_set_back

SpecTime == Init /\ [][NextTime]_vars

Next ==
    \/ do_POST_404
    \/ do_POST_parse
    \/ do_POST_env
    \/ do_POST_load
    \/ do_POST_context
    \/ execute_handler_sync
    \/ execute_handler_async
    \/ loop_resume
    \/ loop_close
    \/ do_POST_send
    \/ do_POST_except
    \/ main_exit
    \/ finish_request

Spec == Init /\ [][Next]_vars

-----------------------------------------------------------------------------
(* Properties *)

\* load_function has been called in the invocation being served
LookedUp == obs.lookups = 1

\* C1: when the previous invocation carried the same source text and
\* resolved, load_function does not run the Resolver: it returns the cached
\* artifact, writes no file, loads no module and leaves the cache slot as the
\* previous invocation left it.
C1_HitSkipsResolver ==
    (LookedUp /\ prev = req.code) =>
        /\ handler # NoneV
        /\ handler = cache0.handler
        /\ obs.resolver = 0
        /\ obs.writes = 0
        /\ obs.loads = 0
        /\ Slot = cache0

C1_Witness == LookedUp /\ prev = req.code /\ pc = "done" /\ wire # <<>>

\* The response an outcome of resolution or dispatch leads to: one head and
\* the success or failure payload; a second head when json.dumps rejects the
\* value after the first head went out; nothing for an exception that
\* `except Exception` does not match.
ResponseTo(r) ==
    IF r.out = "raise"
    THEN IF Caught(r.exc) THEN <<ResponseHead(200), ErrorPayload(r.exc)>> ELSE <<>>
    ELSE IF JsonSerializable(r.value)
         THEN <<ResponseHead(200), SuccessPayload(r.value)>>
         ELSE <<ResponseHead(200), ResponseHead(200),
                ErrorPayload(Exc("TypeError",
                                 <<"Object of type set is not JSON serializable">>))>>

\* Resolving the request with nothing cached, then dispatching.
FreshOutcome(r) ==
    IF Resolve(r.code, r.handler).out = "raise"
    THEN ResponseTo(Resolve(r.code, r.handler))
    ELSE ResponseTo(RunBody(Behaviour(Resolve(r.code, r.handler).value), r.event))

\* C2: with unchanged source text across two consecutive invocations, the
\* outcome of the second equals the outcome of a fresh resolution of the
\* second request followed by dispatch.
C2_CachedEqualsFresh ==
    (pc = "done" /\ LookedUp /\ prev = req.code) => wire = FreshOutcome(req)

ReturnsCached == handler # NoneV /\ handler = cache0.handler

HasSeparator(d) == \E i \in 1..Len(d) : d[i] = "."

IsInvalidHandlerFormat(e) ==
    e # NoneV /\ e.cls = "ValueError" /\ e.msg[1] = "Invalid handler format: "

\* C3 as stated: a source text different from the cached one always makes
\* load_function run the Resolver, not return the cached artifact, and write
\* the source to the fixed location.
C3_MissRematerializes ==
    (LookedUp /\ cache0.code # req.code) =>
        /\ obs.resolver = 1
        /\ ~ReturnsCached
        /\ obs.writes = 1
        /\ file = req.code

\* C3 amended: a source text different from the cached one always makes
\* load_function run the Resolver and not return the cached artifact; the
\* source is written to the fixed location when the descriptor contains a
\* '.', and with no '.' the Resolver raises the invalid-format error before
\* writing anything.
C3_MissRunsResolver ==
    (LookedUp /\ cache0.code # req.code) =>
        /\ obs.resolver = 1
        /\ ~ReturnsCached
        /\ IF HasSeparator(req.handler)
           THEN obs.writes = 1 /\ file = req.code
           ELSE obs.writes = 0 /\ IsInvalidHandlerFormat(exc)

C3_Witness ==
    /\ LookedUp /\ pc = "done"
    /\ cache0.code = "A" /\ req.code = "A_ws"
    /\ handler # NoneV /\ cached_code = "A_ws" /\ file = "A_ws"

\* A descriptor that its last '.' splits into two non-empty components.
WellFormed(d) ==
    \E i \in 2..(Len(d) - 1) : d[i] = "." /\ \A j \in (i+1)..Len(d) : d[j] # "."

FunctionName(d) ==
    LET i == CHOOSE k \in 1..Len(d) : d[k] = "." /\ \A j \in (k+1)..Len(d) : d[j] # "."
    IN SubSeq(d, i + 1, Len(d))

FailedWith(e) ==
    /\ exc = e
    /\ handler = NoneV
    /\ obs.calls = 0
    /\ pc \in {"except", "done"}
    /\ pc = "done" => wire = <<ResponseHead(200), ErrorPayload(e)>>

\* C4: a descriptor that does not split on its last '.' into two non-empty
\* components ends the invocation in ERROR with the invalid-format failure,
\* the handler not invoked, whatever the cache holds.
C4_MalformedDescriptor ==
    (LookedUp /\ ~WellFormed(req.handler)) =>
        IsInvalidHandlerFormat(exc) /\ FailedWith(exc)

IsHandlerNotFound(e, name) ==
    e = Exc("ValueError", <<"Handler '">> \o name \o <<"' not found in module">>)

IsHandlerNotCallable(e, name) ==
    e = Exc("ValueError", <<"Handler '">> \o name \o <<"' is not callable">>)

\* C5: with a well-formed descriptor, a function name that is not an
\* attribute of the unit built from the request's source text ends the
\* invocation in ERROR with handler-not-found, an attribute that is not
\* invocable in ERROR with handler-not-callable; no handler is invoked and
\* none is returned.
C5_MissingOrNotCallable ==
    (LookedUp /\ WellFormed(req.handler) /\ LoadError(req.code) = NoneV) =>
        /\ ~HasAttr(req.code, FunctionName(req.handler)) =>
              IsHandlerNotFound(exc, FunctionName(req.handler)) /\ FailedWith(exc)
        /\ (HasAttr(req.code, FunctionName(req.handler))
              /\ ~Callable(GetAttr(req.code, FunctionName(req.handler)))) =>
              IsHandlerNotCallable(exc, FunctionName(req.handler)) /\ FailedWith(exc)

\* C6: every failure raised during an invocation is captured in do_POST and
\* returned as a failure outcome, and none terminates the process.
C6_FailuresCaptured ==
    /\ pc # "dead"
    /\ (pc = "done" /\ exc # NoneV) => wire[Len(wire)] = ErrorPayload(exc)

\* The handler's body has run to its end in the invocation being served.
BodyEnded == obs.calls = 1 /\ coro # "suspended"

IsFailurePayload(p) ==
    /\ DOMAIN p = {"kind", "statusCode", "error", "stack"}
    /\ p.kind = "payload"
    /\ p.statusCode = 500

IsSuccessPayload(p) ==
    /\ DOMAIN p = {"kind", "statusCode", "body"}
    /\ p.kind = "payload"
    /\ p.statusCode = 200

\* C7: a handler, immediate or suspending, that raises an error with message
\* m ends the invocation in ERROR: statusCode 500, error equal to m and a
\* non-empty trace in stack.
C7_HandlerErrorReported ==
    (BodyEnded /\ RunBody(Behaviour(handler), req.event).out = "raise") =>
        /\ pc \in {"loop", "except", "done"}
        /\ pc = "done" =>
              /\ Len(wire) = 2
              /\ wire[1] = ResponseHead(200)
              /\ IsFailurePayload(wire[2])
              /\ wire[2].error = RunBody(Behaviour(handler), req.event).exc.msg
              /\ wire[2].stack # <<>>

C9_OneOutcome ==
    (req.path = "/invoke" /\ pc = "done") =>
        /\ Len(wire) = 2
        /\ wire[1] = ResponseHead(200)
        /\ IsSuccessPayload(wire[2]) \/ IsFailurePayload(wire[2])

\* The immediate handler with the same body as a suspending one.
ImmediateTwin(fn) == Fn("sync", FALSE, fn.act)

\* C10: dispatching a suspending handler, whether or not it really suspends,
\* gives the result, the error and the invocation outcome that line 110 and
\* the rest of do_POST give for an immediate handler with the same body.
C10_ModelTransparency ==
    (obs.calls = 1 /\ iscoroutinefunction(handler)
        /\ pc \in {"send", "except", "done", "dead"}) =>
        LET r == RunBody(ImmediateTwin(Behaviour(handler)), req.event) IN
        /\ loop = "closed"
        /\ result = r.value
        /\ r.out = "raise" => exc = r.exc /\ pc # "send"
        /\ r.out = "return" => pc # "dead"
        /\ pc = "done" => wire = ResponseTo(r)
        /\ pc = "dead" => wire = <<>> /\ ~Caught(r.exc)

C10_Witness ==
    /\ pc = "done" /\ obs.calls = 1 /\ obs.loops = 1
    /\ iscoroutinefunction(handler) /\ Behaviour(handler).suspends
    /\ result = "int:42"
    /\ wire = <<ResponseHead(200), SuccessPayload("int:42")>>

\* Ticks left of the context's time limit at a query (negative once passed).
TicksLeft(q) == context.timeout_sec * TicksPerSec - q.elapsed

\* C11: every answer of get_remaining_time_in_millis is an integer >= 0: the
\* remaining milliseconds truncated while the limit has not passed, and 0
\* once the elapsed time has reached the limit.
C11_RemainingTime ==
    \A i \in 1..Len(queries) :
        /\ queries[i].ms \in Nat
        /\ TicksLeft(queries[i]) > 0 =>
              /\ queries[i].ms * TicksPerSec <= TicksLeft(queries[i]) * 1000
              /\ TicksLeft(queries[i]) * 1000 < (queries[i].ms + 1) * TicksPerSec
        /\ TicksLeft(queries[i]) <= 0 => queries[i].ms = 0

C11_Witness ==
    /\ Len(queries) = 2
    /\ queries[1].ms > 0 /\ queries[1].ms % 1000 # 0
    /\ TicksLeft(queries[2]) < 0 /\ queries[2].ms = 0

\* C12: on one context, no later call of get_remaining_time_in_millis
\* answers a larger remaining time than an earlier call.
C12_NonIncreasing ==
    \A i, j \in 1..Len(queries) : i < j => queries[j].ms <= queries[i].ms

\* C18: a dispatched handler is never aborted for its time limit: dispatch
\* ends only when the handler's body has ended, the outcome is the handler's
\* own result or error, and past the limit the context answers 0.
C18_NoCancellation ==
    /\ (obs.calls = 1 /\ pc \in {"send", "except", "done"}) =>
          /\ coro # "suspended"
          /\ result = RunBody(Behaviour(handler), req.event).value
          /\ RunBody(Behaviour(handler), req.event).out = "raise" =>
                exc = RunBody(Behaviour(handler), req.event).exc
          /\ pc = "done" => wire = ResponseTo(RunBody(Behaviour(handler), req.event))
    /\ \A i \in 1..Len(queries) :
          TicksLeft(queries[i]) <= 0 => queries[i].ms = 0

C18_Witness ==
    /\ pc = "done" /\ obs.calls = 1
    /\ iscoroutinefunction(handler)
    /\ context.timeout_sec > 0
    /\ now - context.start_time > context.timeout_sec * TicksPerSec
    /\ Len(queries) = 2 /\ queries[1].ms > 0 /\ queries[2].ms = 0
    /\ wire = <<ResponseHead(200), SuccessPayload("int:42")>>

\* The overlay of the current request is in force in the process environment.
OverlayApplied == \A k \in DOMAIN req.env : environ[k] = req.env[k]

\* C13: from the cache lookup on, so before the Resolver and before the
\* handler runs, every name of the request's environment overlay is bound to
\* the requested value, on cache hits and on misses alike.
C13_OverlayFirst ==
    (obs.lookups = 1 \/ obs.resolver = 1 \/ obs.calls = 1) => OverlayApplied

\* a cache hit whose request carries an overlay, with the handler called
C13_Witness ==
    /\ obs.lookups = 1 /\ obs.resolver = 0 /\ obs.calls = 1
    /\ DOMAIN req.env = EnvKeys
    /\ OverlayApplied

\* C14: a dispatch of a suspending handler creates one event loop, which is
\* open only while the dispatch runs and closed when it ends, by return or by
\* raise; outside a dispatch no loop is open; an immediate handler's dispatch
\* creates none.
C14_PrivateLoop ==
    /\ open_loops = (IF pc = "loop" THEN 1 ELSE 0)
    /\ (loop = "open") <=> (pc = "loop")
    /\ obs.calls = 1 =>
          IF iscoroutinefunction(handler)
          THEN obs.loops = 1 /\ (pc # "loop" => loop = "closed")
          ELSE obs.loops = 0 /\ loop = "none"
    /\ obs.calls = 0 => obs.loops = 0 /\ loop = "none"

\* a suspending handler has raised and its dispatch is over
C14_Witness ==
    /\ pc = "except" /\ obs.calls = 1 /\ obs.loops = 1
    /\ iscoroutinefunction(handler) /\ coro = "finished"
    /\ exc # NoneV /\ loop = "closed" /\ open_loops = 0

\* C15: within an invocation the Resolver, the cache lookup and the handler
\* run at most once; the context exists only after a successful resolution,
\* the handler is called only with a context, never after a failed
\* resolution, and an invocation that resolved has called the handler once
\* when anything of its outcome is written.
C15_StepOrder ==
    /\ obs.lookups <= 1 /\ obs.resolver <= 1 /\ obs.calls <= 1
    /\ obs.resolver = 1 => obs.lookups = 1
    /\ context # NoneV => handler # NoneV /\ obs.lookups = 1
    /\ obs.calls = 1 => context # NoneV
    /\ handler = NoneV => obs.calls = 0
    /\ (wire # <<>> /\ handler # NoneV) => obs.calls = 1
    /\ (pc = "done" /\ handler # NoneV) => obs.calls = 1

\* a handler that ran once and failed, and its failure outcome
C15_Witness ==
    /\ pc = "done" /\ obs.resolver = 1 /\ obs.calls = 1
    /\ context # NoneV /\ exc # NoneV
    /\ wire = <<ResponseHead(200), ErrorPayload(exc)>>

\* The pair (code, artifact) is one that lines 49-85 produce from `code`.
ResolvedPair(code, h) ==
    /\ h # NoneV
    /\ h.code = code
    /\ LoadError(code) = NoneV
    /\ HasAttr(code, h.name)
    /\ Callable(GetAttr(code, h.name))
    /\ h = Artifact(code, h.name)

\* C16: the cache slot is empty, both fields unset, or holds a source text
\* with the artifact that a successful resolution of that same text produces:
\* never a text with another text's artifact or with none.
C16_SlotIsPair ==
    \/ cached_code = "None" /\ cached_handler = NoneV
    \/ cached_code # "None" /\ ResolvedPair(cached_code, cached_handler)

\* a slot replaced by a resolution that follows a failed invocation
C16_Witness ==
    /\ prev = "failed" /\ obs.resolver = 1 /\ handler # NoneV
    /\ cache0.code # "None" /\ cached_code # cache0.code
    /\ ResolvedPair(cached_code, cached_handler)

\* C17: at most one invocation is in flight: do_POST runs for one request at
\* a time, and none is running while the server waits for a request.
C17_OneAtATime ==
    /\ inflight <= 1
    /\ inflight = (IF pc = "idle" THEN 0 ELSE 1)

\* a second invocation has written its outcome after the first one ended
C17_Witness ==
    /\ pc = "done" /\ prev # "None" /\ req.path = "/invoke"
    /\ wire # <<>> /\ inflight = 1

\* C19: a resolution that fails leaves both fields of the cache slot as they
\* were when the invocation began, and a following invocation that carries
\* the cached source text is served from the slot without the Resolver.
C19_FailureKeepsSlot ==
    /\ (obs.resolver = 1 /\ handler = NoneV) => Slot = cache0
    /\ (prev = "failed" /\ obs.lookups = 1 /\ cache0.code # "None"
          /\ req.code = cache0.code) =>
          obs.resolver = 0 /\ handler = cache0.handler /\ Slot = cache0

\* a cache hit right after an invocation whose resolution failed
C19_Witness ==
    /\ prev = "failed" /\ pc = "done"
    /\ obs.lookups = 1 /\ obs.resolver = 0 /\ obs.calls = 1
    /\ cache0.code = req.code /\ handler = cache0.handler

\* C20: whenever the cache slot is non-empty, the file at
\* FUNCTION_DIR/function.py holds exactly the cached source text.
C20_FileIsCachedSource == cached_code # "None" => file = cached_code

====
